---- MODULE Spec2Model ----
(***************************************************************************)
(* Bag tracker backend (src/backend/main.py): user registration and login  *)
(* behind an approval gate, signed tokens, a per-address rate limiter,     *)
(* scan deletion, age-based retention cleanup and a bounded-range export,  *)
(* all over a row-oriented sheet store.                                    *)
(*                                                                         *)
(* Conventions.  A text cell that the code only compares or tests for      *)
(* emptiness is a TLA+ string.  A text the code strips is a sequence of    *)
(* one-character strings.  A timestamp text "YYYY-MM-DD HH:MM:SS" is the   *)
(* sequence of its six numeric fields, a date text "YYYY-MM-DD" the        *)
(* sequence of its three; <<>> is the empty text.  The clock `now` counts  *)
(* seconds from midnight of EpochDate.                                     *)
(***************************************************************************)
EXTENDS Integers, Sequences, FiniteSets, TLC

VARIABLES
    users,              \* rows of sheet "Bag Tracker Users", row i+1 of the sheet
    scans,              \* rows of sheet "Bag Tracker Data"
    rate_limit_store,   \* client address -> admitted request times
    now,                \* the clock, in seconds
    store_up,           \* whether the sheet service can be reached
    wire,               \* tokens held by clients (issued or tampered with)
    req,                \* the request just served
    resp,               \* the response to it
    admit_log,          \* history: per address, the times of the requests admitted
                        \* during the last window
    threads,            \* per worker thread: the locals of the scan handler it runs
    removed             \* history: what the delete_rows call of the step just
                        \* taken took off the scans sheet

vars == <<users, scans, rate_limit_store, now, store_up, wire, req, resp, admit_log,
          threads, removed>>

-----------------------------------------------------------------------------
(* Program constants *)

TOKEN_EXPIRATION_DAYS == 7
RATE_LIMIT_WINDOW == 60
RATE_LIMIT_MAX_REQUESTS == 5
SCAN_RETENTION_DAYS == 7
USER_INACTIVE_DAYS == 10
MIN_PASSWORD_LEN == 6
MAX_EXPORT_DAYS == 7
LAST_LOGIN_COLUMN == 8
SECRET_KEY == "your-secret-key-change-in-production"
CLEANUP_SECRET_KEY == "bagtracker2024"

DAY == 24 * 60 * 60

-----------------------------------------------------------------------------
(* Bounds of the model *)

\* the clock of the retention specification stops after this many days
MaxDays == 15
\* the clock of the accounts specification stops after this many days
MaxAccountDays == 5
\* the clock of the rate-limit specification stops after this many seconds
MaxRateSeconds == 120
\* the clock of the token specification stops after this many days
MaxTokenDays == 8
\* the clock of the scans specification stops after this many days
MaxScanDays == 10
\* rows the scans sheet may hold
MaxScans == 3
\* tokens clients may hold
MaxWire == 3

\* midnight of this day is now = 0
EpochDate == <<2024, 2, 20>>

-----------------------------------------------------------------------------
(* Calendar: datetime.strftime / datetime.strptime and date arithmetic *)

IsLeap(y) == (y % 4 = 0) /\ ((y % 100 # 0) \/ (y % 400 = 0))

DaysInMonth(y, m) ==
    IF m = 2 THEN (IF IsLeap(y) THEN 29 ELSE 28)
    ELSE IF m \in {4, 6, 9, 11} THEN 30 ELSE 31

RECURSIVE DaysBeforeMonth(_, _)
DaysBeforeMonth(y, m) ==
    IF m <= 1 THEN 0 ELSE DaysBeforeMonth(y, m - 1) + DaysInMonth(y, m - 1)

DaysBeforeYear(y) ==
    365 * (y - 1) + ((y - 1) \div 4) - ((y - 1) \div 100) + ((y - 1) \div 400)

\* date.toordinal
toordinal(y, m, d) == DaysBeforeYear(y) + DaysBeforeMonth(y, m) + d

EpochOrdinal == toordinal(EpochDate[1], EpochDate[2], EpochDate[3])

\* date.fromordinal, for the years the model's clock and cells lie in
fromordinal(n) ==
    LET y == CHOOSE yy \in (EpochDate[1] - 2)..(EpochDate[1] + 2) :
                 DaysBeforeYear(yy) < n /\ n <= DaysBeforeYear(yy + 1)
        r == n - DaysBeforeYear(y)
        m == CHOOSE mm \in 1..12 :
                 DaysBeforeMonth(y, mm) < r
                 /\ r <= DaysBeforeMonth(y, mm) + DaysInMonth(y, mm)
    IN  <<y, m, r - DaysBeforeMonth(y, m)>>

\* strftime("%Y-%m-%d %H:%M:%S") of the instant t
strftime(t) ==
    LET ymd == fromordinal(EpochOrdinal + (t \div DAY))
        s   == t % DAY
    IN  <<ymd[1], ymd[2], ymd[3], s \div 3600, (s % 3600) \div 60, s % 60>>

\* strftime("%Y-%m-%d") of the instant t
strftime_date(t) == fromordinal(EpochOrdinal + (t \div DAY))

ValidDate(y, m, d) ==
    /\ y >= 1
    /\ m \in 1..12
    /\ d >= 1
    /\ d <= DaysInMonth(y, m)

\* strptime(text, "%Y-%m-%d %H:%M:%S"): ok = FALSE stands for ValueError
strptime(text) ==
    IF /\ Len(text) = 6
       /\ ValidDate(text[1], text[2], text[3])
       /\ text[4] \in 0..23
       /\ text[5] \in 0..59
       /\ text[6] \in 0..59
    THEN [ok |-> TRUE,
          t  |-> (toordinal(text[1], text[2], text[3]) - EpochOrdinal) * DAY
                 + text[4] * 3600 + text[5] * 60 + text[6]]
    ELSE [ok |-> FALSE, t |-> 0]

\* strptime(text, "%Y-%m-%d").date(): the day's ordinal
strptime_date(text) ==
    IF Len(text) = 3 /\ ValidDate(text[1], text[2], text[3])
    THEN [ok |-> TRUE, day |-> toordinal(text[1], text[2], text[3])]
    ELSE [ok |-> FALSE, day |-> 0]

-----------------------------------------------------------------------------
(* Texts *)

Whitespace == {" ", "\t", "\n"}

RECURSIVE lstrip(_)
lstrip(s) ==
    IF s # <<>> /\ Head(s) \in Whitespace THEN lstrip(Tail(s)) ELSE s

RECURSIVE rstrip(_)
rstrip(s) ==
    IF s # <<>> /\ s[Len(s)] \in Whitespace
    THEN rstrip(SubSeq(s, 1, Len(s) - 1))
    ELSE s

\* str.strip
strip(s) == rstrip(lstrip(s))

Approved == <<"A", "p", "p", "r", "o", "v", "e", "d">>
Pending == <<"P", "e", "n", "d", "i", "n", "g">>

\* a cell of the scans sheet as get_all_records returns it: text or number
TextCell(s) == <<"text", s>>
NumCell(n) == <<"num", n>>

DigitChar(d) ==
    CASE d = 0 -> "0" [] d = 1 -> "1" [] d = 2 -> "2" [] d = 3 -> "3"
      [] d = 4 -> "4" [] d = 5 -> "5" [] d = 6 -> "6" [] d = 7 -> "7"
      [] d = 8 -> "8" [] d = 9 -> "9"

RECURSIVE NatStr(_)
NatStr(n) == IF n < 10 THEN DigitChar(n) ELSE NatStr(n \div 10) \o DigitChar(n % 10)

\* str(value) of a cell
str(cell) == IF cell[1] = "num" THEN NatStr(cell[2]) ELSE cell[2]

-----------------------------------------------------------------------------
(* Requests and responses *)

Request(op, ip, input) == [op |-> op, ip |-> ip, input |-> input]

NoRequest == Request("none", "", <<>>)

\* the endpoints behind no rate limiter do not read the client's address
AnyIP == ""

Response(op, status, message, body) ==
    [op |-> op, status |-> status, message |-> message, body |-> body]

NoResponse == Response("none", "none", "", <<>>)

StoreError(op) == Response(op, "error", "store unavailable", <<>>)

-----------------------------------------------------------------------------
(* Initial state: empty sheets, empty rate-limit table *)

\* the handlers declared with plain def run on the server's thread pool
Threads == {"t1", "t2"}

\* a thread that runs no scan handler.  rows_to_delete are the row numbers
\* still to be passed to delete_rows, deleted_count is len(rows_to_delete) as
\* first computed; `at` (history) is where each of those rows is on the sheet
\* now (0 when it is gone), `raced` (history) tells that another thread has
\* deleted a row since this one read the sheet
Idle ==
    [op |-> "idle", data |-> <<>>, rows_to_delete |-> <<>>, deleted_count |-> 0,
     at |-> <<>>, raced |-> FALSE]

NoRemoval == [op |-> "none", data |-> <<>>, row |-> <<>>, survives |-> FALSE]

IPs == {"10.0.0.1", "10.0.0.2"}

Init ==
    /\ users = <<>>
    /\ scans = <<>>
    /\ rate_limit_store = [ip \in IPs |-> <<>>]
    /\ now = 0
    /\ store_up = TRUE
    /\ wire = {}
    /\ req = NoRequest
    /\ resp = NoResponse
    /\ admit_log = [ip \in IPs |-> <<>>]
    /\ threads = [t \in Threads |-> Idle]
    /\ removed = NoRemoval

-----------------------------------------------------------------------------
(* Sheet handle: update_cell, delete_rows.  Row 1 is the header, so the    *)
(* record at position k of get_all_records (counting from 1) is row k + 1. *)

UserColumns ==
    <<"Username", "PasswordHash", "Name", "Mobile", "Email", "Branch",
      "CreatedAt", "LastLogin", "Approval">>

\* a write that takes the row number for a record position, header forgotten
update_cell_below_header(rows, row, col, value) ==
    IF row \in 1..Len(rows)
    THEN [rows EXCEPT ![row][UserColumns[col]] = value]
    ELSE rows

update_cell(rows, row, col, value) ==
    IF row - 1 \in 1..Len(rows)
    THEN [rows EXCEPT ![row - 1][UserColumns[col]] = value]
    ELSE rows

\* a deletion that takes the row number for a record position, header forgotten
delete_rows_below_header(rows, row) ==
    IF row \in 1..Len(rows)
    THEN SubSeq(rows, 1, row - 1) \o SubSeq(rows, row + 1, Len(rows))
    ELSE rows

delete_rows(rows, row) ==
    IF row - 1 \in 1..Len(rows)
    THEN SubSeq(rows, 1, row - 2) \o SubSeq(rows, row, Len(rows))
    ELSE rows

RECURSIVE delete_all_forward(_, _)
\* the deletions taken in ascending order: each one shifts the rows below it
delete_all_forward(rows, rows_to_delete) ==
    IF rows_to_delete = <<>> THEN rows
    ELSE delete_all_forward(delete_rows(rows, rows_to_delete[1]),
                            SubSeq(rows_to_delete, 2, Len(rows_to_delete)))

RECURSIVE delete_all(_, _)
\* for row_index in reversed(rows_to_delete): sheet.delete_rows(row_index)
delete_all(rows, rows_to_delete) ==
    IF rows_to_delete = <<>> THEN rows
    ELSE delete_all(delete_rows(rows, rows_to_delete[Len(rows_to_delete)]),
                    SubSeq(rows_to_delete, 1, Len(rows_to_delete) - 1))

-----------------------------------------------------------------------------
(* Passwords and tokens *)

Salts == {"salt1"}

\* bcrypt.hashpw(password, salt)
hashpw(password, salt) == <<"$2b$", salt, password>>

\* bcrypt.checkpw: hashes the password with the salt the stored hash carries
verify_password(password, hashed) == hashpw(password, hashed[2]) = hashed

\* the HS256 signature of a payload under a key
hs256(payload, key) == <<"HS256", key, payload>>

create_token(username, name, branch) ==
    LET payload == [username |-> username, name |-> name, branch |-> branch,
                    exp |-> now + TOKEN_EXPIRATION_DAYS * DAY]
    IN  [payload |-> payload, sig |-> hs256(payload, SECRET_KEY)]

None == [ok |-> FALSE]

\* a decode that checks the signature and not the expiry
verify_signature_only(token) ==
    IF token.sig # hs256(token.payload, SECRET_KEY) THEN {None}
    ELSE {[ok |-> TRUE, payload |-> token.payload]}

\* verify_token: the set of results jwt.decode can give at time `now`.  At
\* the expiry instant itself the library's comparison decides (exp < now in
\* PyJWT 1, exp <= now in PyJWT 2), so both results are possible there.
verify_token(token) ==
    IF token.sig # hs256(token.payload, SECRET_KEY) THEN {None}
    ELSE IF token.payload.exp < now THEN {None}
    ELSE IF token.payload.exp = now
         THEN {None, [ok |-> TRUE, payload |-> token.payload]}
    ELSE {[ok |-> TRUE, payload |-> token.payload]}

-----------------------------------------------------------------------------
(* Rate limiter decorator *)

\* the address's timestamps still inside the window
Pruned(ip) ==
    SelectSeq(rate_limit_store[ip], LAMBDA t : now - t < RATE_LIMIT_WINDOW)

\* a limit test that is off by one and lets a sixth request through
OverLimitByOne(ip) == Len(Pruned(ip)) > RATE_LIMIT_MAX_REQUESTS

OverLimit(ip) == Len(Pruned(ip)) >= RATE_LIMIT_MAX_REQUESTS

RateLimited(op) ==
    Response(op, "error", "Too many attempts. Please try again later.", <<>>)

\* the wrapper's rejection: the pruned list is stored, nothing is appended
rate_limit_reject(ip, op) ==
    /\ OverLimit(ip)
    /\ rate_limit_store' = [rate_limit_store EXCEPT ![ip] = Pruned(ip)]
    /\ resp' = RateLimited(op)
    /\ UNCHANGED <<users, scans, now, store_up, wire>>

\* the wrapper's admission, after which the wrapped handler runs
rate_limit_admit(ip) ==
    /\ ~OverLimit(ip)
    /\ rate_limit_store' = [rate_limit_store EXCEPT ![ip] = Append(Pruned(ip), now)]

-----------------------------------------------------------------------------
(* POST /register *)

UsernameExists(rows, username) ==
    \E k \in 1..Len(rows) : rows[k].Username = username

\* a register that forgets the one-mobile-one-account check
MobileNeverExists(rows, mobile) == FALSE

MobileExists(rows, mobile) ==
    \E k \in 1..Len(rows) : rows[k].Mobile = mobile

\* "not user.username or not user.password or ..." is false
RequiredPresent(user) ==
    /\ user.username # ""
    /\ user.password # ""
    /\ user.name # ""
    /\ user.mobile # ""
    /\ user.branch # ""

\* a length check that is off by one
PasswordTooShortOrSix(password) == Len(password) <= MIN_PASSWORD_LEN

PasswordTooShort(password) == Len(password) < MIN_PASSWORD_LEN

NewUserRow(user, salt) ==
    [Username     |-> user.username,
     PasswordHash |-> hashpw(user.password, salt),
     Name         |-> user.name,
     Mobile       |-> user.mobile,
     Email        |-> user.email,
     Branch       |-> user.branch,
     CreatedAt    |-> strftime(now),
     LastLogin    |-> <<>>,
     Approval     |-> <<>>]

\* the body of register, run once the rate limiter has admitted the request
register_body(user) ==
    IF ~store_up THEN
        /\ resp' = StoreError("register")
        /\ users' = users
    ELSE IF UsernameExists(users, user.username) THEN
        /\ resp' = Response("register", "error", "Username already exists", <<>>)
        /\ users' = users
    ELSE IF MobileExists(users, user.mobile) THEN
        /\ resp' = Response("register", "error", "Mobile number already registered", <<>>)
        /\ users' = users
    ELSE IF ~RequiredPresent(user) THEN
        /\ resp' = Response("register", "error", "All fields except email are required", <<>>)
        /\ users' = users
    ELSE IF PasswordTooShort(user.password) THEN
        /\ resp' = Response("register", "error", "Password must be at least 6 characters", <<>>)
        /\ users' = users
    ELSE
        \E salt \in Salts :
            /\ users' = Append(users, NewUserRow(user, salt))
            /\ resp' = Response("register", "success", "Registration successful", <<>>)

register(ip, user) ==
    /\ req' = Request("register", ip, user)
    /\ \/ rate_limit_reject(ip, "register")
       \/ /\ rate_limit_admit(ip)
          /\ register_body(user)
          /\ UNCHANGED <<scans, now, store_up, wire>>

-----------------------------------------------------------------------------
(* POST /login *)

\* position (from 1) of the first record with this username, 0 if none
FindUser(rows, username) ==
    IF UsernameExists(rows, username)
    THEN CHOOSE k \in 1..Len(rows) :
             /\ rows[k].Username = username
             /\ \A j \in 1..(k - 1) : rows[j].Username # username
    ELSE 0

\* a gate that takes any non-empty status for an approval
IsAnyStatus(cell) == strip(cell) # <<>>

\* approval_status = user_row.get('Approval', '').strip(); == 'Approved'
IsApproved(cell) == strip(cell) = Approved

PublicUser(row) ==
    [username |-> row.Username, name |-> row.Name, branch |-> row.Branch,
     mobile |-> row.Mobile, email |-> row.Email]

login_body(credentials) ==
    LET k == FindUser(users, credentials.username)
        row_index == k + 1
    IN
    IF ~store_up THEN
        /\ resp' = StoreError("login")
        /\ users' = users
    ELSE IF k = 0 THEN
        /\ resp' = Response("login", "error", "Invalid username or password", <<>>)
        /\ users' = users
    ELSE IF ~verify_password(credentials.password, users[k].PasswordHash) THEN
        /\ resp' = Response("login", "error", "Invalid username or password", <<>>)
        /\ users' = users
    ELSE IF ~IsApproved(users[k].Approval) THEN
        /\ resp' = Response("login", "error",
                            "Admin approval needed. Please contact administrator.",
                            [error_code |-> "APPROVAL_REQUIRED"])
        /\ users' = users
    ELSE
        /\ users' = update_cell(users, row_index, LAST_LOGIN_COLUMN, strftime(now))
        /\ resp' = Response("login", "success", "",
                            [token |-> create_token(users[k].Username, users[k].Name,
                                                    users[k].Branch),
                             user  |-> PublicUser(users[k])])

login(ip, credentials) ==
    /\ req' = Request("login", ip, credentials)
    /\ \/ rate_limit_reject(ip, "login")
       \/ /\ rate_limit_admit(ip)
          /\ login_body(credentials)
          /\ UNCHANGED <<scans, now, store_up, wire>>

-----------------------------------------------------------------------------
(* POST /verify_token and POST /check_approval *)

InvalidToken(op) == Response(op, "error", "Invalid or expired token", <<>>)

verify_user_token(token) ==
    /\ req' = Request("verify_token", AnyIP, token)
    /\ \E r \in verify_token(token) :
           resp' = IF r.ok
                   THEN Response("verify_token", "success", "", [user |-> r.payload])
                   ELSE InvalidToken("verify_token")
    /\ UNCHANGED <<users, scans, rate_limit_store, now, store_up, wire>>

check_approval(token) ==
    /\ req' = Request("check_approval", AnyIP, token)
    /\ \E r \in verify_token(token) :
           IF ~r.ok THEN
               resp' = InvalidToken("check_approval")
           ELSE IF r.payload.username = "" THEN
               resp' = Response("check_approval", "error", "Invalid token payload", <<>>)
           ELSE IF ~store_up THEN
               \* the handler's try has no except clause in the source: the fault
               \* either reaches the framework or is reported in the body
               \E status \in {"error", "fault"} :
                   resp' = Response("check_approval", status, "store unavailable", <<>>)
           ELSE IF FindUser(users, r.payload.username) = 0 THEN
               resp' = Response("check_approval", "error", "User not found", <<>>)
           ELSE
               LET approval_status ==
                       strip(users[FindUser(users, r.payload.username)].Approval)
               IN  resp' = Response("check_approval", "success", "",
                                    [approved |-> approval_status = Approved,
                                     approval_status |->
                                         IF approval_status # <<>>
                                         THEN approval_status ELSE Pending])
    /\ UNCHANGED <<users, scans, rate_limit_store, now, store_up, wire>>

-----------------------------------------------------------------------------
(* POST /record_scan and POST /delete_scan *)

ScanRow(timestamp, date, bin, bag, type) ==
    [Timestamp |-> timestamp, Date |-> date, BinName |-> bin, BagID |-> bag,
     Type |-> type, Status |-> "Scanned"]

\* recordScan: stamps the row with the current local time
record_scan(data) ==
    /\ Len(scans) < MaxScans
    /\ req' = Request("record_scan", AnyIP, data)
    /\ IF ~store_up THEN
           /\ resp' = StoreError("record_scan")
           /\ scans' = scans
       ELSE
           /\ scans' = Append(scans, ScanRow(strftime(now), strftime_date(now),
                                             TextCell(data.bin_id), TextCell(data.bag_id),
                                             TextCell(data.scan_type)))
           /\ resp' = Response("record_scan", "success", "", <<>>)
    /\ UNCHANGED <<users, rate_limit_store, now, store_up, wire>>

\* the three cells, each through str(), against the request's three texts
ScanMatches(record, data) ==
    /\ str(record.BinName) = data.bin_id
    /\ str(record.BagID) = data.bag_id
    /\ str(record.Type) = data.scan_type

RECURSIVE find_from_top(_, _, _)
find_from_top(records, data, j) ==
    IF j >= Len(records) THEN 0
    ELSE IF ScanMatches(records[j + 1], data) THEN j + 2
    ELSE find_from_top(records, data, j + 1)

\* a search that runs from the first row down and so finds the oldest match
find_oldest_row(records, data, i) == find_from_top(records, data, 0)

RECURSIVE find_row_to_delete(_, _, _)
\* for i in range(len(records) - 1, -1, -1): the first match gives row i + 2;
\* 0 stands for None
find_row_to_delete(records, data, i) ==
    IF i < 0 THEN 0
    ELSE IF ScanMatches(records[i + 1], data) THEN i + 2
    ELSE find_row_to_delete(records, data, i - 1)

delete_scan(data) ==
    LET row_to_delete == find_row_to_delete(scans, data, Len(scans) - 1)
    IN
    /\ req' = Request("delete_scan", AnyIP, data)
    /\ IF ~store_up THEN
           /\ resp' = StoreError("delete_scan")
           /\ scans' = scans
       ELSE IF row_to_delete # 0 THEN
           /\ scans' = delete_rows(scans, row_to_delete)
           /\ resp' = Response("delete_scan", "success", "Scan deleted", <<>>)
       ELSE
           /\ scans' = scans
           /\ resp' = Response("delete_scan", "error", "Record not found", <<>>)
    /\ UNCHANGED <<users, rate_limit_store, now, store_up, wire>>

-----------------------------------------------------------------------------
(* Retention: cleanup_old_scan_data, cleanup_inactive_users, POST /cleanup *)

\* a cutoff test that also takes the rows exactly at the cutoff
AtLeastAsOld(t, days) == t <= now - days * DAY

\* timestamp < seven_days_ago
OlderThan(t, days) == t < now - days * DAY

RECURSIVE old_scan_rows(_, _)
\* the loop over enumerate(all_records) from index i on: rows_to_delete
old_scan_rows(all_records, i) ==
    IF i >= Len(all_records) THEN <<>>
    ELSE LET timestamp_str == all_records[i + 1].Timestamp
             rest == old_scan_rows(all_records, i + 1)
         IN  IF timestamp_str = <<>> THEN rest
             ELSE IF ~strptime(timestamp_str).ok THEN rest
             ELSE IF OlderThan(strptime(timestamp_str).t, SCAN_RETENTION_DAYS)
                  THEN <<i + 2>> \o rest
             ELSE rest

\* an entry of deleted_records; the sheet has no 'Bin ID' or 'Scan Type' column
ScanReport(all_records, row_index) ==
    [row |-> row_index,
     timestamp |-> all_records[row_index - 1].Timestamp,
     bin_id |-> "None",
     bag_id |-> all_records[row_index - 1].BagID,
     scan_type |-> "None"]

\* what cleanup_old_scan_data returns
cleanup_old_scan_result(dry_run) ==
    IF ~store_up THEN [status |-> "error", message |-> "store unavailable"]
    ELSE LET rows_to_delete == old_scan_rows(scans, 0)
         IN  [status |-> "success",
              dry_run |-> dry_run,
              deleted_count |-> Len(rows_to_delete),
              records |-> IF dry_run
                          THEN [n \in 1..Len(rows_to_delete) |->
                                    ScanReport(scans, rows_to_delete[n])]
                          ELSE <<>>]

\* the scans sheet after cleanup_old_scan_data
cleanup_old_scan_sheet(dry_run) ==
    IF store_up /\ ~dry_run THEN delete_all(scans, old_scan_rows(scans, 0)) ELSE scans

RECURSIVE inactive_user_rows_by_creation(_, _)
\* a retention loop that falls back on Created At when Last Login is empty
inactive_user_rows_by_creation(all_users, i) ==
    IF i >= Len(all_users) THEN <<>>
    ELSE LET last_login_str == IF all_users[i + 1].LastLogin = <<>>
                               THEN all_users[i + 1].CreatedAt
                               ELSE all_users[i + 1].LastLogin
             rest == inactive_user_rows_by_creation(all_users, i + 1)
         IN  IF ~strptime(last_login_str).ok THEN rest
             ELSE IF OlderThan(strptime(last_login_str).t, USER_INACTIVE_DAYS)
                  THEN <<i + 2>> \o rest
             ELSE rest

RECURSIVE inactive_user_rows(_, _)
inactive_user_rows(all_users, i) ==
    IF i >= Len(all_users) THEN <<>>
    ELSE LET last_login_str == all_users[i + 1].LastLogin
             rest == inactive_user_rows(all_users, i + 1)
         IN  IF last_login_str = <<>> THEN rest
             ELSE IF ~strptime(last_login_str).ok THEN rest
             ELSE IF OlderThan(strptime(last_login_str).t, USER_INACTIVE_DAYS)
                  THEN <<i + 2>> \o rest
             ELSE rest

UserReport(all_users, row_index) ==
    [row |-> row_index,
     username |-> all_users[row_index - 1].Username,
     name |-> all_users[row_index - 1].Name,
     last_login |-> all_users[row_index - 1].LastLogin,
     branch |-> all_users[row_index - 1].Branch]

cleanup_inactive_users_result(dry_run) ==
    IF ~store_up THEN [status |-> "error", message |-> "store unavailable"]
    ELSE LET rows_to_delete == inactive_user_rows(users, 0)
         IN  [status |-> "success",
              dry_run |-> dry_run,
              deleted_count |-> Len(rows_to_delete),
              users |-> IF dry_run
                        THEN [n \in 1..Len(rows_to_delete) |->
                                  UserReport(users, rows_to_delete[n])]
                        ELSE <<>>]

cleanup_inactive_users_sheet(dry_run) ==
    IF store_up /\ ~dry_run THEN delete_all(users, inactive_user_rows(users, 0)) ELSE users

\* result.get("deleted_count", 0)
DeletedCount(result) == IF result.status = "success" THEN result.deleted_count ELSE 0

cleanup_data(request) ==
    /\ req' = Request("cleanup", AnyIP, request)
    /\ IF request.secret_key # CLEANUP_SECRET_KEY THEN
           /\ resp' = Response("cleanup", "error", "Invalid secret key", <<>>)
           /\ UNCHANGED <<users, scans>>
       ELSE
           LET scan_result == cleanup_old_scan_result(request.dry_run)
               user_result == cleanup_inactive_users_result(request.dry_run)
           IN  /\ scans' = cleanup_old_scan_sheet(request.dry_run)
               /\ users' = cleanup_inactive_users_sheet(request.dry_run)
               /\ resp' = Response("cleanup", "success", "",
                              [dry_run |-> request.dry_run,
                               scan_data_cleanup |-> scan_result,
                               inactive_users_cleanup |-> user_result,
                               summary |-> [scans_deleted |-> DeletedCount(scan_result),
                                            users_deleted |-> DeletedCount(user_result)]])
    /\ UNCHANGED <<rate_limit_store, now, store_up, wire>>

-----------------------------------------------------------------------------
(* The scan handlers on the thread pool.  delete_scan and cleanup_data are *)
(* plain def handlers, so two requests run side by side and every call to  *)
(* the sheet (get_all_records, each delete_rows) is a step of its own.     *)

\* the record that delete_rows(row) takes off the sheet, None below the data
RowAt(rows, row) == IF row - 1 \in 1..Len(rows) THEN rows[row - 1] ELSE None

\* history: the positions `at` once sheet row `row` has been deleted
Shifted(rows, at, row) ==
    IF row - 1 \in 1..Len(rows)
    THEN [n \in 1..Len(at) |->
             IF at[n] = row - 1 THEN 0
             ELSE IF at[n] > row - 1 THEN at[n] - 1
             ELSE at[n]]
    ELSE at

\* history: what thread t's delete_rows(row) did to the other threads
Overtaken(t, row) ==
    [u \in Threads |->
        IF u = t \/ threads[u].op = "idle" THEN threads[u]
        ELSE [threads[u] EXCEPT !.raced = TRUE, !.at = Shifted(scans, @, row)]]

\* the locals of a handler that has read the sheet and goes on to delete
InFlight(op, data, rows_to_delete) ==
    [op |-> op, data |-> data, rows_to_delete |-> rows_to_delete,
     deleted_count |-> Len(rows_to_delete),
     at |-> [n \in 1..Len(rows_to_delete) |-> rows_to_delete[n] - 1],
     raced |-> FALSE]

\* delete_scan up to the end of its search: records = sheet.get_all_records()
\* and the backward loop; with no match (or no store) the handler returns
delete_scan_read(t, data) ==
    /\ threads[t] = Idle
    /\ LET row_to_delete == find_row_to_delete(scans, data, Len(scans) - 1)
       IN  IF ~store_up \/ row_to_delete = 0 THEN
               delete_scan(data) /\ removed' = NoRemoval /\ UNCHANGED <<admit_log, threads>>
           ELSE
               /\ threads' = [threads EXCEPT
                                 ![t] = InFlight("delete_scan", data, <<row_to_delete>>)]
               /\ req' = NoRequest
               /\ resp' = NoResponse
               /\ removed' = NoRemoval
               /\ UNCHANGED <<users, scans, rate_limit_store, now, store_up, wire,
                              admit_log>>

\* delete_scan from sheet.delete_rows(row_to_delete) to its return
delete_scan_delete(t) ==
    /\ threads[t].op = "delete_scan"
    /\ req' = Request("delete_scan", AnyIP, threads[t].data)
    /\ LET row_to_delete == threads[t].rows_to_delete[1]
       IN  IF ~store_up THEN
               /\ resp' = StoreError("delete_scan")
               /\ threads' = [threads EXCEPT ![t] = Idle]
               /\ removed' = NoRemoval
               /\ scans' = scans
           ELSE
               /\ scans' = delete_rows(scans, row_to_delete)
               /\ resp' = Response("delete_scan", "success", "Scan deleted", <<>>)
               /\ removed' = [op |-> "delete_scan", data |-> threads[t].data,
                              row |-> RowAt(scans, row_to_delete),
                              survives |-> threads[t].at[1] \notin {0, row_to_delete - 1}]
               /\ threads' = [Overtaken(t, row_to_delete) EXCEPT ![t] = Idle]
    /\ UNCHANGED <<users, rate_limit_store, now, store_up, wire, admit_log>>

\* POST /cleanup up to the end of the loop that builds rows_to_delete; a
\* request that deletes no scan row goes through in this one step
cleanup_read(t, request) ==
    /\ threads[t] = Idle
    /\ LET rows_to_delete == old_scan_rows(scans, 0)
       IN  IF \/ request.secret_key # CLEANUP_SECRET_KEY
              \/ ~store_up
              \/ request.dry_run
              \/ rows_to_delete = <<>>
           THEN
               cleanup_data(request) /\ removed' = NoRemoval /\ UNCHANGED <<admit_log, threads>>
           ELSE
               /\ threads' = [threads EXCEPT
                                 ![t] = InFlight("cleanup", request, rows_to_delete)]
               /\ req' = NoRequest
               /\ resp' = NoResponse
               /\ removed' = NoRemoval
               /\ UNCHANGED <<users, scans, rate_limit_store, now, store_up, wire,
                              admit_log>>

\* what POST /cleanup answers once both retention steps have returned
cleanup_response(request, scan_result, user_result) ==
    Response("cleanup", "success", "",
        [dry_run |-> request.dry_run,
         scan_data_cleanup |-> scan_result,
         inactive_users_cleanup |-> user_result,
         summary |-> [scans_deleted |-> DeletedCount(scan_result),
                      users_deleted |-> DeletedCount(user_result)]])

\* one turn of `for row_index in reversed(rows_to_delete)`; after the last
\* one cleanup_inactive_users runs and the handler returns
cleanup_delete(t) ==
    /\ threads[t].op = "cleanup"
    /\ LET request == threads[t].data
           rows_to_delete == threads[t].rows_to_delete
           n == Len(rows_to_delete)
           row_index == rows_to_delete[n]
       IN  IF ~store_up THEN
               /\ req' = Request("cleanup", AnyIP, request)
               /\ resp' = cleanup_response(request,
                              [status |-> "error", message |-> "store unavailable"],
                              cleanup_inactive_users_result(FALSE))
               /\ threads' = [threads EXCEPT ![t] = Idle]
               /\ removed' = NoRemoval
               /\ UNCHANGED <<users, scans>>
           ELSE
               /\ scans' = delete_rows(scans, row_index)
               /\ removed' = [op |-> "cleanup", data |-> request,
                              row |-> RowAt(scans, row_index),
                              survives |-> threads[t].at[n] \notin {0, row_index - 1}]
               /\ IF n = 1 THEN
                      /\ req' = Request("cleanup", AnyIP, request)
                      /\ resp' = cleanup_response(request,
                                     [status |-> "success", dry_run |-> FALSE,
                                      deleted_count |-> threads[t].deleted_count,
                                      records |-> <<>>],
                                     cleanup_inactive_users_result(FALSE))
                      /\ users' = cleanup_inactive_users_sheet(FALSE)
                      /\ threads' = [Overtaken(t, row_index) EXCEPT ![t] = Idle]
                  ELSE
                      /\ req' = NoRequest
                      /\ resp' = NoResponse
                      /\ users' = users
                      /\ threads' = [Overtaken(t, row_index) EXCEPT
                                        ![t] = [threads[t] EXCEPT
                                                   !.rows_to_delete =
                                                       SubSeq(rows_to_delete, 1, n - 1),
                                                   !.at = Shifted(scans,
                                                              SubSeq(@, 1, n - 1),
                                                              row_index)]]
    /\ UNCHANGED <<rate_limit_store, now, store_up, wire, admit_log>>

-----------------------------------------------------------------------------
(* POST /download_data *)

\* date_diff > 7
RangeTooLong(date_diff) == date_diff > MAX_EXPORT_DAYS

\* the record's Date cell is non-empty, parses, and lies in [start, end]
InRange(record, start_day, end_day) ==
    /\ record.Date # <<>>
    /\ strptime_date(record.Date).ok
    /\ start_day <= strptime_date(record.Date).day
    /\ strptime_date(record.Date).day <= end_day

ScanColumns == <<"Timestamp", "Date", "BinName", "BagID", "Type", "Status">>

\* "{start:%d-%m-%Y}-{end:%d-%m-%Y}_{branch}.xlsx"
Filename(start_date, end_date, branch) ==
    <<start_date[3], start_date[2], start_date[1],
      end_date[3], end_date[2], end_date[1], branch, ".xlsx">>

download_data(request) ==
    LET start == strptime_date(request.start_date)
        end   == strptime_date(request.end_date)
        date_diff == end.day - start.day
        filtered_records ==
            SelectSeq(scans, LAMBDA record : InRange(record, start.day, end.day))
    IN
    /\ req' = Request("download_data", AnyIP, request)
    /\ resp' =
         IF ~start.ok \/ ~end.ok THEN
             Response("download_data", "error", "time data does not match format", <<>>)
         ELSE IF date_diff < 0 THEN
             Response("download_data", "error",
                      "Start date must be before or equal to end date", <<>>)
         ELSE IF RangeTooLong(date_diff) THEN
             Response("download_data", "error", "Date range cannot exceed 7 days", <<>>)
         ELSE IF ~store_up THEN
             StoreError("download_data")
         ELSE IF filtered_records = <<>> THEN
             Response("download_data", "error",
                      "No data found in the mentioned date range", <<>>)
         ELSE
             Response("download_data", "file",
                      Filename(request.start_date, request.end_date, request.branch),
                      [headers |-> ScanColumns, rows |-> filtered_records])
    /\ UNCHANGED <<users, scans, rate_limit_store, now, store_up, wire>>

-----------------------------------------------------------------------------
(* The environment: the clock, the administrator editing the sheets by     *)
(* hand, the sheet service going down and up, clients keeping tokens       *)

Tick(step, limit) ==
    /\ now + step <= limit
    /\ now' = now + step
    /\ req' = NoRequest
    /\ resp' = NoResponse
    /\ UNCHANGED <<users, scans, rate_limit_store, store_up, wire>>

\* the administrator writes the Approval cell of a user row
SetApproval(k, value) ==
    /\ k \in 1..Len(users)
    /\ users[k].Approval # value
    /\ users' = [users EXCEPT ![k].Approval = value]
    /\ req' = NoRequest
    /\ resp' = NoResponse
    /\ UNCHANGED <<scans, rate_limit_store, now, store_up, wire>>

\* the administrator overwrites a Last Login cell with a text that is no timestamp
SetLastLogin(k, text) ==
    /\ k \in 1..Len(users)
    /\ users[k].LastLogin # text
    /\ users' = [users EXCEPT ![k].LastLogin = text]
    /\ req' = NoRequest
    /\ resp' = NoResponse
    /\ UNCHANGED <<scans, rate_limit_store, now, store_up, wire>>

\* a row written to the scans sheet by hand or by another writer
SheetAppendScan(row) ==
    /\ Len(scans) < MaxScans
    /\ scans' = Append(scans, row)
    /\ req' = NoRequest
    /\ resp' = NoResponse
    /\ UNCHANGED <<users, rate_limit_store, now, store_up, wire>>

StoreOutage ==
    /\ store_up' = ~store_up
    /\ req' = NoRequest
    /\ resp' = NoResponse
    /\ UNCHANGED <<users, scans, rate_limit_store, now, wire>>

\* the client keeps the token of a successful login
KeepToken ==
    /\ resp.op = "login"
    /\ resp.status = "success"
    /\ Cardinality(wire) < MaxWire
    /\ resp.body.token \notin wire
    /\ wire' = wire \cup {resp.body.token}
    /\ req' = NoRequest
    /\ resp' = NoResponse
    /\ UNCHANGED <<users, scans, rate_limit_store, now, store_up>>

\* what a client can make of a token without the signing key
Tampered(token) ==
    { [token EXCEPT !.payload.exp = @ + TOKEN_EXPIRATION_DAYS * DAY],
      [token EXCEPT !.payload.username = "admin"],
      [token EXCEPT !.sig = hs256(token.payload, "guessed-key")] }

Tamper(token, forged) ==
    /\ token \in wire
    /\ forged \in Tampered(token)
    /\ forged \notin wire
    /\ Cardinality(wire) < MaxWire
    /\ wire' = wire \cup {forged}
    /\ req' = NoRequest
    /\ resp' = NoResponse
    /\ UNCHANGED <<users, scans, rate_limit_store, now, store_up>>

-----------------------------------------------------------------------------
(* Inputs *)

ClientIP == "10.0.0.1"

Alice ==
    [username |-> "alice", password |-> "123456", name |-> "Ann",
     mobile |-> "9000000001", email |-> "", branch |-> "Pune"]

ValidRegistrations ==
    { [Alice EXCEPT !.username = username, !.mobile = mobile] :
        username \in {"alice", "bob"}, mobile \in {"9000000001", "9000000002"} }

\* the valid registrations, and Alice's with one thing wrong with it
Registrations ==
    ValidRegistrations \cup
    { [Alice EXCEPT !.username = ""],
      [Alice EXCEPT !.password = ""],
      [Alice EXCEPT !.password = "12345"],
      [Alice EXCEPT !.name = ""],
      [Alice EXCEPT !.mobile = ""],
      [Alice EXCEPT !.branch = ""],
      [Alice EXCEPT !.username = "bob", !.mobile = "9000000002", !.password = "12345"] }

Credentials ==
    { [username |-> "alice", password |-> "123456"],
      [username |-> "alice", password |-> "654321"],
      [username |-> "bob", password |-> "123456"],
      [username |-> "carol", password |-> "123456"] }

ApprovalTexts ==
    { Approved,
      <<"a", "p", "p", "r", "o", "v", "e", "d">>,
      Pending,
      <<" ">> \o Approved \o <<" ">> }

\* a Last Login text with month 13
BadTimestamp == <<2024, 13, 1, 0, 0, 0>>

CleanupRequests ==
    [secret_key : {CLEANUP_SECRET_KEY, "guess"}, dry_run : BOOLEAN]

DayStep == 5 * DAY

-----------------------------------------------------------------------------------------------------------------------------------------------------
(* Specification of the accounts: register, login and the approval gate *)

Next ==
    \/ \E user \in Registrations : register(ClientIP, user) /\ UNCHANGED <<admit_log, threads, removed>>
    \/ \E credentials \in Credentials : login(ClientIP, credentials) /\ UNCHANGED <<admit_log, threads, removed>>
    \/ \E k \in 1..Len(users), value \in ApprovalTexts :
           SetApproval(k, value) /\ UNCHANGED <<admit_log, threads, removed>>
    \/ Tick(DayStep, MaxAccountDays * DAY) /\ UNCHANGED <<admit_log, threads, removed>>

Spec == Init /\ [][Next]_vars

-----------------------------------------------------------------------------
(* Specification of the retention of accounts: register, login, approval   *)
(* by the administrator, hand edits of Last Login, and POST /cleanup       *)

RetentionLogins == {c \in Credentials : c.password = Alice.password}

NextRetention ==
    \/ \E user \in ValidRegistrations : register(ClientIP, user) /\ UNCHANGED <<admit_log, threads, removed>>
    \/ \E credentials \in RetentionLogins : login(ClientIP, credentials) /\ UNCHANGED <<admit_log, threads, removed>>
    \/ \E request \in CleanupRequests : cleanup_data(request) /\ UNCHANGED <<admit_log, threads, removed>>
    \/ \E k \in 1..Len(users) : SetApproval(k, Approved) /\ UNCHANGED <<admit_log, threads, removed>>
    \/ \E k \in 1..Len(users) : SetLastLogin(k, BadTimestamp) /\ UNCHANGED <<admit_log, threads, removed>>
    \/ Tick(DayStep, MaxDays * DAY) /\ UNCHANGED <<admit_log, threads, removed>>

SpecRetention == Init /\ [][NextRetention]_vars

-----------------------------------------------------------------------------
(* Specification of the scans sheet: record, delete, retention *)

ScanRequests ==
    { [bin_id |-> "A", bag_id |-> "G1", scan_type |-> "FWD"],
      [bin_id |-> "A", bag_id |-> "G1", scan_type |-> "RTO"],
      [bin_id |-> "7", bag_id |-> "G1", scan_type |-> "FWD"] }

DeleteRequests ==
    ScanRequests \cup
    { [bin_id |-> "A", bag_id |-> "G2", scan_type |-> "FWD"] }

\* rows from another writer: a numeric bin cell, and a Timestamp cell that is
\* empty, has month 13, is exactly seven days before the first tick of the
\* clock, or is one second older than that
ForeignScanRows ==
    { ScanRow(timestamp, <<>>, NumCell(7), TextCell("G1"), TextCell("FWD")) :
        timestamp \in { <<>>, BadTimestamp,
                        strftime(DayStep - SCAN_RETENTION_DAYS * DAY),
                        strftime(DayStep - SCAN_RETENTION_DAYS * DAY - 1) } }

NextScans ==
    \/ \E data \in ScanRequests : record_scan(data) /\ UNCHANGED <<admit_log, threads, removed>>
    \/ \E row \in ForeignScanRows : SheetAppendScan(row) /\ UNCHANGED <<admit_log, threads, removed>>
    \/ \E data \in DeleteRequests : delete_scan(data) /\ UNCHANGED <<admit_log, threads, removed>>
    \/ \E request \in CleanupRequests : cleanup_data(request) /\ UNCHANGED <<admit_log, threads, removed>>
    \/ Tick(DayStep, MaxScanDays * DAY) /\ UNCHANGED <<admit_log, threads, removed>>

SpecScans == Init /\ [][NextScans]_vars

-----------------------------------------------------------------------------
(* Specification of the export *)

ExportDates ==
    { <<2024, 2, 20>>, <<2024, 2, 27>>, <<2024, 2, 28>>, <<2024, 3, 1>>,
      <<2024, 2, 30>> }

ExportRows ==
    { ScanRow(<<>>, date, TextCell("A"), TextCell("G1"), TextCell("FWD")) :
        date \in ExportDates \cup {<<>>} }

DownloadRequests ==
    [start_date : ExportDates, end_date : ExportDates, branch : {"Pune"}]

NextExport ==
    \/ \E row \in ExportRows : SheetAppendScan(row) /\ UNCHANGED <<admit_log, threads, removed>>
    \/ \E request \in DownloadRequests : download_data(request) /\ UNCHANGED <<admit_log, threads, removed>>

SpecExport == Init /\ [][NextExport]_vars

-----------------------------------------------------------------------------
(* Specification of the rate limiter: requests to /login and /register     *)
(* from two addresses, with the admitted ones logged                       *)

AliceLogin == [username |-> "alice", password |-> "123456"]

RateSteps == {30, 59}

\* the times in a log that lie less than one window before the instant t
Recent(log, t) == SelectSeq(log, LAMBDA x : t - x < RATE_LIMIT_WINDOW)

\* the history of admissions: a request not answered by the limiter's
\* rejection was admitted at `now`; admissions a full window old are dropped
\* from the history, as no later admission can share a window with them
LogAdmission(ip) ==
    admit_log' = [admit_log EXCEPT ![ip] =
                     IF resp'.message = RateLimited(resp'.op).message
                     THEN Recent(@, now)
                     ELSE Append(Recent(@, now), now)]

AgeLog == admit_log' = [ip \in IPs |-> Recent(admit_log[ip], now')]

NextRate ==
    \/ \E ip \in IPs : login(ip, AliceLogin) /\ LogAdmission(ip) /\ UNCHANGED <<threads, removed>>
    \/ \E ip \in IPs : register(ip, Alice) /\ LogAdmission(ip) /\ UNCHANGED <<threads, removed>>
    \/ \E step \in RateSteps : Tick(step, MaxRateSeconds) /\ AgeLog /\ UNCHANGED <<threads, removed>>

SpecRate == Init /\ [][NextRate]_vars

-----------------------------------------------------------------------------
(* Specification of the tokens: issued by login, kept and tampered with by *)
(* clients, presented to /verify_token and /check_approval                 *)

TokenSteps == {3 * DAY, 4 * DAY}

NextToken ==
    \/ register(ClientIP, Alice) /\ UNCHANGED <<admit_log, threads, removed>>
    \/ SetApproval(1, Approved) /\ UNCHANGED <<admit_log, threads, removed>>
    \/ login(ClientIP, AliceLogin) /\ UNCHANGED <<admit_log, threads, removed>>
    \/ KeepToken /\ UNCHANGED <<admit_log, threads, removed>>
    \/ \E token \in wire : \E forged \in Tampered(token) :
           Tamper(token, forged) /\ UNCHANGED <<admit_log, threads, removed>>
    \/ \E token \in wire : verify_user_token(token) /\ UNCHANGED <<admit_log, threads, removed>>
    \/ \E token \in wire : check_approval(token) /\ UNCHANGED <<admit_log, threads, removed>>
    \/ \E step \in TokenSteps : Tick(step, MaxTokenDays * DAY) /\ UNCHANGED <<admit_log, threads, removed>>

SpecToken == Init /\ [][NextToken]_vars

-----------------------------------------------------------------------------
(* Specification of the error boundary: every endpoint, with the sheet     *)
(* service going down and coming back                                      *)

OneScan == [bin_id |-> "A", bag_id |-> "G1", scan_type |-> "FWD"]

OneDownload ==
    [start_date |-> <<2024, 2, 20>>, end_date |-> <<2024, 2, 27>>, branch |-> "Pune"]

NextOutage ==
    \/ StoreOutage /\ UNCHANGED <<admit_log, threads, removed>>
    \/ register(ClientIP, Alice) /\ UNCHANGED <<admit_log, threads, removed>>
    \/ SetApproval(1, Approved) /\ UNCHANGED <<admit_log, threads, removed>>
    \/ login(ClientIP, AliceLogin) /\ UNCHANGED <<admit_log, threads, removed>>
    \/ KeepToken /\ UNCHANGED <<admit_log, threads, removed>>
    \/ \E token \in wire : verify_user_token(token) /\ UNCHANGED <<admit_log, threads, removed>>
    \/ \E token \in wire : check_approval(token) /\ UNCHANGED <<admit_log, threads, removed>>
    \/ record_scan(OneScan) /\ UNCHANGED <<admit_log, threads, removed>>
    \/ delete_scan(OneScan) /\ UNCHANGED <<admit_log, threads, removed>>
    \/ download_data(OneDownload) /\ UNCHANGED <<admit_log, threads, removed>>
    \/ \E request \in CleanupRequests : cleanup_data(request) /\ UNCHANGED <<admit_log, threads, removed>>

SpecOutage == Init /\ [][NextOutage]_vars

-----------------------------------------------------------------------------
(* Specification of the scans sheet under two handler threads: the reads   *)
(* and the deletes of delete_scan and of a deleting cleanup interleave     *)

RaceScans ==
    { [bin_id |-> "A", bag_id |-> "G1", scan_type |-> "FWD"],
      [bin_id |-> "A", bag_id |-> "G1", scan_type |-> "RTO"] }

\* one step of the clock takes the rows on the sheet past the retention cutoff
RaceStep == MaxScanDays * DAY

RaceCleanup == [secret_key |-> CLEANUP_SECRET_KEY, dry_run |-> FALSE]

NextRace ==
    \/ \E data \in RaceScans :
           record_scan(data) /\ removed' = NoRemoval /\ UNCHANGED <<admit_log, threads>>
    \/ \E t \in Threads : \E data \in RaceScans : delete_scan_read(t, data)
    \/ \E t \in Threads : delete_scan_delete(t)
    \/ \E t \in Threads : cleanup_read(t, RaceCleanup)
    \/ \E t \in Threads : cleanup_delete(t)
    \/ Tick(RaceStep, MaxScanDays * DAY)
           /\ removed' = NoRemoval /\ UNCHANGED <<admit_log, threads>>

SpecRace == Init /\ [][NextRace]_vars

-----------------------------------------------------------------------------
(* Properties *)

Range(f) == {f[x] : x \in DOMAIN f}

\* the step serves a request to `op` that the rate limiter let through
Served(op) == req'.op = op /\ resp' # RateLimited(op)

\* the rows of `rows` at the positions in `keep`, in their order
RowsAt(rows, keep) ==
    [n \in 1..Cardinality(keep) |->
        rows[CHOOSE k \in keep : Cardinality({j \in keep : j <= k}) = n]]

\* the text is "Approved" with nothing but whitespace around it
ApprovedUpToWhitespace(cell) ==
    \E i \in 1..Len(cell) : \E j \in i..Len(cell) :
        /\ SubSeq(cell, i, j) = Approved
        /\ \A k \in (1..(i - 1)) \cup ((j + 1)..Len(cell)) : cell[k] \in Whitespace

\* C1 as amended: a login with a known username and the right password
\* succeeds (token, last_login set to the current time) exactly when the
\* stored approval status is "Approved", case-sensitively, up to surrounding
\* whitespace; for every other stored status, the empty status of a fresh
\* registration included, it fails with APPROVAL_REQUIRED, issues no token
\* and leaves the users sheet unchanged.
C1_ApprovalGate ==
    [][ (Served("login") /\ store_up) =>
          LET c == req'.input
              known == {k \in 1..Len(users) : users[k].Username = c.username}
          IN  /\ resp'.status = "success" =>
                    \E k \in known :
                        /\ verify_password(c.password, users[k].PasswordHash)
                        /\ ApprovedUpToWhitespace(users[k].Approval)
              /\ \A k \in known :
                    verify_password(c.password, users[k].PasswordHash) =>
                        IF ApprovedUpToWhitespace(users[k].Approval)
                        THEN /\ resp'.status = "success"
                             /\ resp'.body.token.payload.username = c.username
                             /\ users'[k].LastLogin = strftime(now)
                        ELSE /\ resp'.status = "error"
                             /\ resp'.body = [error_code |-> "APPROVAL_REQUIRED"]
                             /\ users' = users ]_vars

\* C1 witness: a login with the right password was refused with
\* APPROVAL_REQUIRED for a user whose stored status is lowercase "approved"
C1_Witness ==
    /\ req.op = "login"
    /\ resp.status = "error"
    /\ resp.body = [error_code |-> "APPROVAL_REQUIRED"]
    /\ \E k \in 1..Len(users) :
           /\ users[k].Username = req.input.username
           /\ users[k].Approval = <<"a", "p", "p", "r", "o", "v", "e", "d">>
           /\ users[k].LastLogin = <<>>

\* C1 as stated: login succeeds only if the stored approval status equals
\* "Approved" exactly
C1_ExactStatusOnly ==
    [][ (Served("login") /\ resp'.status = "success") =>
          \A k \in 1..Len(users) :
              users[k].Username = req'.input.username => users[k].Approval = Approved
      ]_vars

\* C9: a register that reaches the handler appends a row if and only if no
\* row has its username or its mobile, its five required fields are
\* non-empty and its password has at least 6 characters; the appended row is
\* the only change, has empty last_login and approval status, and the
\* response carries no token; every failing register leaves the sheet
\* unchanged, a 5-character password failing with the password message.
C9_RegisterValidation ==
    [][ (Served("register") /\ store_up) =>
          LET u == req'.input
              fresh == \A k \in 1..Len(users) :
                           users[k].Username # u.username /\ users[k].Mobile # u.mobile
              filled == \A f \in {"username", "password", "name", "mobile", "branch"} :
                            u[f] # ""
              accepted == fresh /\ filled /\ Len(u.password) >= 6
          IN  IF accepted
              THEN /\ Len(users') = Len(users) + 1
                   /\ SubSeq(users', 1, Len(users)) = users
                   /\ users'[Len(users')].Username = u.username
                   /\ users'[Len(users')].Mobile = u.mobile
                   /\ users'[Len(users')].LastLogin = <<>>
                   /\ users'[Len(users')].Approval = <<>>
                   /\ resp'.status = "success"
                   /\ resp'.body = <<>>
              ELSE /\ users' = users
                   /\ resp'.status = "error"
                   /\ (fresh /\ filled) =>
                          resp'.message = "Password must be at least 6 characters"
      ]_vars

\* C9 witness: with a user on the sheet, a registration of a new username and
\* mobile with a 5-character password was refused
C9_Witness ==
    /\ req.op = "register"
    /\ Len(req.input.password) = 5
    /\ resp.message = "Password must be at least 6 characters"
    /\ Len(users) = 1
    /\ users[1].Username # req.input.username
    /\ users[1].Mobile # req.input.mobile

\* C2: no two rows of the users sheet share a username or a mobile, through
\* every register, login and cleanup; a register that reaches the handler
\* with a username already on the sheet fails with "Username already
\* exists", and one with a new username and a mobile already on the sheet
\* with "Mobile number already registered", the sheet unchanged.
C2_Uniqueness ==
    [][ /\ \A i, j \in 1..Len(users') :
              i # j => /\ users'[i].Username # users'[j].Username
                       /\ users'[i].Mobile # users'[j].Mobile
        /\ (Served("register") /\ store_up) =>
              LET u == req'.input
                  nameTaken == \E k \in 1..Len(users) : users[k].Username = u.username
                  mobileTaken == \E k \in 1..Len(users) : users[k].Mobile = u.mobile
              IN  /\ nameTaken =>
                        resp' = Response("register", "error", "Username already exists", <<>>)
                        /\ users' = users
                  /\ (~nameTaken /\ mobileTaken) =>
                        resp' = Response("register", "error",
                                         "Mobile number already registered", <<>>)
                        /\ users' = users
      ]_vars

\* C2 witness: after a cleanup has deleted a user, a registration of a new
\* username with the mobile of a remaining user was refused
C2_Witness ==
    /\ req.op = "register"
    /\ resp.message = "Mobile number already registered"
    /\ Len(users) = 1
    /\ users[1].Mobile = req.input.mobile
    /\ users[1].Username # req.input.username
    /\ strptime(users[1].CreatedAt).t > 0

\* the users the retention can take: Last Login parses and is strictly more
\* than ten days before now
Inactive(rows) ==
    {k \in 1..Len(rows) :
        /\ rows[k].LastLogin # <<>>
        /\ strptime(rows[k].LastLogin).ok
        /\ strptime(rows[k].LastLogin).t < now - 10 * DAY}

\* C10: cleanup_inactive_users reports (dry run) or deletes (otherwise)
\* exactly the users whose last_login parses and is strictly before now
\* minus 10 days; a user with an empty last_login is never among them,
\* however old its created_at.
C10_NeverLoggedInExempt ==
    [][ (req'.op = "cleanup" /\ resp'.status = "success" /\ store_up) =>
          LET result == resp'.body.inactive_users_cleanup
          IN  /\ result.deleted_count = Cardinality(Inactive(users))
              /\ \A k \in Inactive(users) : users[k].LastLogin # <<>>
              /\ IF req'.input.dry_run
                 THEN /\ users' = users
                      /\ {result.users[n].row - 1 : n \in 1..Len(result.users)}
                             = Inactive(users)
                 ELSE /\ users' = RowsAt(users, (1..Len(users)) \ Inactive(users))
                      /\ result.users = <<>>
      ]_vars

\* C10 witness: a deleting cleanup removed a user, and a user created more
\* than ten days ago who never logged in is still on the sheet
C10_Witness ==
    /\ req.op = "cleanup"
    /\ resp.status = "success"
    /\ ~req.input.dry_run
    /\ resp.body.inactive_users_cleanup.deleted_count >= 1
    /\ \E k \in 1..Len(users) :
           /\ users[k].LastLogin = <<>>
           /\ strptime(users[k].CreatedAt).t < now - 10 * DAY


\* C3: delete_scan removes at most one row: with the store reachable, when
\* rows match the request's three texts, the matching row with the highest
\* index is removed and all other rows, earlier matches included, stay in
\* their order; when none matches, the answer is "Record not found" and the
\* sheet is unchanged.
C3_DeleteMostRecentMatch ==
    [][ (req'.op = "delete_scan" /\ store_up) =>
          LET data == req'.input
              matching == {k \in 1..Len(scans) :
                              /\ str(scans[k].BinName) = data.bin_id
                              /\ str(scans[k].BagID) = data.bag_id
                              /\ str(scans[k].Type) = data.scan_type}
          IN  IF matching = {}
              THEN /\ scans' = scans
                   /\ resp' = Response("delete_scan", "error", "Record not found", <<>>)
              ELSE LET last == CHOOSE k \in matching : \A j \in matching : j <= k
                   IN  /\ scans' = RowsAt(scans, (1..Len(scans)) \ {last})
                       /\ Len(scans') = Len(scans) - 1
                       /\ resp'.status = "success"
      ]_vars

\* C3 witness: a scan was deleted, and an earlier row matching the same
\* request is still on the sheet, followed by a row that does not match
C3_Witness ==
    /\ req.op = "delete_scan"
    /\ resp.status = "success"
    /\ Len(scans) = 2
    /\ ScanMatches(scans[1], req.input)
    /\ ~ScanMatches(scans[2], req.input)

\* the scan rows the retention can take: Timestamp parses and is strictly
\* more than seven days before now
OldScans(rows) ==
    {k \in 1..Len(rows) :
        /\ rows[k].Timestamp # <<>>
        /\ strptime(rows[k].Timestamp).ok
        /\ strptime(rows[k].Timestamp).t < now - 7 * DAY}

\* C5: a dry-run cleanup leaves the scans sheet unchanged, and the rows it
\* reports, and their count, are exactly the rows whose timestamp parses and
\* is strictly before now minus 7 days; rows with an empty or unparseable
\* timestamp and rows at or after the cutoff are not reported.
C5_DryRunReportsOldScans ==
    [][ (req'.op = "cleanup" /\ resp'.status = "success" /\ store_up
         /\ req'.input.dry_run) =>
          LET result == resp'.body.scan_data_cleanup
          IN  /\ scans' = scans
              /\ result.deleted_count = Cardinality(OldScans(scans))
              /\ Len(result.records) = result.deleted_count
              /\ {result.records[n].row - 1 : n \in 1..Len(result.records)}
                     = OldScans(scans)
              /\ \A n \in 1..Len(result.records) :
                     result.records[n].timestamp
                         = scans[result.records[n].row - 1].Timestamp
      ]_vars

\* C5 witness: a dry run reported one row of a sheet that also holds a row
\* exactly at the cutoff and a row whose timestamp does not parse
C5_Witness ==
    /\ req.op = "cleanup"
    /\ resp.status = "success"
    /\ req.input.dry_run
    /\ resp.body.scan_data_cleanup.deleted_count = 1
    /\ Len(scans) = 3
    /\ \E k \in 1..Len(scans) :
           strptime(scans[k].Timestamp).ok
           /\ strptime(scans[k].Timestamp).t = now - 7 * DAY
    /\ \E k \in 1..Len(scans) : scans[k].Timestamp = BadTimestamp


InvalidRange(r) ==
    r.message \in {"Start date must be before or equal to end date",
                   "Date range cannot exceed 7 days"}

NoDataFound(r) == r.message = "No data found in the mentioned date range"

\* C6: for valid dates, the export fails with InvalidRange exactly when the
\* start is after the end or the span, counting both end days, exceeds 7
\* days; otherwise it fails with NoDataFound exactly when no scan row has a
\* parseable Date within [start, end].
C6_ExportRange ==
    [][ (req'.op = "download_data" /\ store_up
         /\ strptime_date(req'.input.start_date).ok
         /\ strptime_date(req'.input.end_date).ok) =>
          LET first == strptime_date(req'.input.start_date).day
              last  == strptime_date(req'.input.end_date).day
              days  == last - first + 1
              inside == {k \in 1..Len(scans) :
                            /\ strptime_date(scans[k].Date).ok
                            /\ first <= strptime_date(scans[k].Date).day
                            /\ strptime_date(scans[k].Date).day <= last}
          IN  /\ InvalidRange(resp') <=> (first > last \/ days > 7)
              /\ ~InvalidRange(resp') => (NoDataFound(resp') <=> inside = {})
      ]_vars

\* C7: a login issues a token that carries the user's username, name and
\* branch and expires 7 days after its issue; a token so signed is accepted
\* by verify_token, which returns that payload, at every time before its
\* expiry; at every time after its expiry it is refused with the very
\* response a token with a bad signature gets, by /verify_token and by
\* /check_approval alike.
C7_TokenLifetime ==
    [][ /\ (Served("login") /\ resp'.status = "success") =>
              LET token == resp'.body.token
              IN  /\ token.payload.exp = now + 7 * DAY
                  /\ token.payload.username = req'.input.username
                  /\ token.sig = hs256(token.payload, SECRET_KEY)
        /\ req'.op \in {"verify_token", "check_approval"} =>
              LET token == req'.input
                  genuine == token.sig = hs256(token.payload, SECRET_KEY)
              IN  /\ (genuine /\ now < token.payload.exp) =>
                        /\ resp' # InvalidToken(req'.op)
                        /\ req'.op = "verify_token" =>
                               /\ resp'.status = "success"
                               /\ resp'.body.user = token.payload
                  /\ (~genuine \/ now > token.payload.exp) =>
                        resp' = InvalidToken(req'.op)
      ]_vars

\* C7 witness: a token the server signed was presented after its expiry and
\* refused, while a tampered token is in circulation too
C7_Witness ==
    /\ req.op = "verify_token"
    /\ req.input.sig = hs256(req.input.payload, SECRET_KEY)
    /\ now > req.input.payload.exp
    /\ resp = InvalidToken("verify_token")
    /\ \E token \in wire : token.sig # hs256(token.payload, SECRET_KEY)

\* the admissions of a log that fall in the window [start, start + 60)
InWindow(log, start) == {n \in 1..Len(log) : start <= log[n] /\ log[n] < start + 60}

\* C4: per address, at most 5 requests are admitted in any 60-second window
\* (it is enough to look at the windows that start at an admission):
\* a request from an address with 5 admissions in the last 60 seconds is
\* rejected with the rate-limit message, without running the handler and
\* without being recorded; a request from an address with fewer, earlier
\* ones having aged out of the window, is admitted and recorded; the other
\* addresses' entries are untouched.
C4_RateLimit ==
    [][ /\ \A ip \in IPs : \A start \in Range(admit_log'[ip]) :
              Cardinality(InWindow(admit_log'[ip], start)) <= 5
        /\ req'.op \in {"login", "register"} =>
              LET ip == req'.ip
                  recent == {n \in 1..Len(admit_log[ip]) : now - admit_log[ip][n] < 60}
                  kept == SelectSeq(rate_limit_store[ip], LAMBDA t : now - t < 60)
              IN  /\ IF Cardinality(recent) >= 5
                     THEN /\ resp' = RateLimited(req'.op)
                          /\ users' = users
                          /\ rate_limit_store'[ip] = kept
                     ELSE /\ resp' # RateLimited(req'.op)
                          /\ rate_limit_store'[ip] = Append(kept, now)
                  /\ \A other \in IPs \ {ip} :
                         rate_limit_store'[other] = rate_limit_store[other]
      ]_vars

\* C4 witness: the sixth request of an address within a minute, 59 seconds
\* after its first five, was rejected, while the other address was served
C4_Witness ==
    /\ req.op = "login"
    /\ resp = RateLimited("login")
    /\ now = 59
    /\ rate_limit_store[req.ip] = <<0, 0, 0, 0, 0>>
    /\ \E other \in IPs \ {req.ip} :
           Len(rate_limit_store[other]) \in 1..4 /\ now \in Range(rate_limit_store[other])

\* C8: no response reports success for a request whose operation failed:
\* while the store is unreachable, register, login, delete_scan,
\* download_data and cleanup answer with top-level status "error", and a
\* cleanup one of whose retention steps failed does so too.
C8_ErrorBoundary ==
    /\ (~store_up /\ req.op \in {"register", "login", "delete_scan", "download_data"})
           => resp.status = "error"
    /\ (req.op = "cleanup" /\ req.input.secret_key = CLEANUP_SECRET_KEY
        /\ resp.status = "success")
           => /\ resp.body.scan_data_cleanup.status = "success"
              /\ resp.body.inactive_users_cleanup.status = "success"

\* C11: a deleting cleanup served in one piece removes exactly the candidate
\* rows (Timestamp parses and is strictly before now minus 7 days): the sheet
\* afterwards holds the rows that were not candidates, rows with an empty or
\* unparseable Timestamp included, in their original order, and
\* deleted_count is the number of rows removed.
C11_CleanupDeletesCandidates ==
    [][ (req'.op = "cleanup" /\ resp'.status = "success" /\ store_up
         /\ ~req'.input.dry_run /\ req'.input.secret_key = CLEANUP_SECRET_KEY) =>
          LET result == resp'.body.scan_data_cleanup
          IN  /\ scans' = RowsAt(scans, (1..Len(scans)) \ OldScans(scans))
              /\ result.status = "success"
              /\ result.deleted_count = Cardinality(OldScans(scans))
              /\ result.deleted_count = Len(scans) - Len(scans')
              /\ result.records = <<>>
      ]_vars

\* C11 witness: a deleting cleanup removed two rows of a sheet of three and
\* the row that stays is the one whose Timestamp does not parse
C11_Witness ==
    /\ req.op = "cleanup"
    /\ resp.status = "success"
    /\ ~req.input.dry_run
    /\ resp.body.scan_data_cleanup.status = "success"
    /\ resp.body.scan_data_cleanup.deleted_count = 2
    /\ Len(scans) = 1
    /\ scans[1].Timestamp = BadTimestamp

\* the step is a delete_rows call of thread t
Deletes(t) ==
    /\ threads[t].op # "idle"
    /\ store_up
    /\ \/ threads'[t].op = "idle"
       \/ Len(threads'[t].rows_to_delete) < Len(threads[t].rows_to_delete)

\* C12: nothing ties a handler's delete_rows to its earlier read.  A delete
\* takes the row that is at the recorded index at that moment, whatever it
\* is; it is the intended row (it matches the delete_scan request, or is
\* older than the retention cutoff) when no other thread has deleted a row
\* since the handler read the sheet, appends and the clock notwithstanding.
\* The reachable race, a wrong row deleted while the intended row stays, is
\* C12_Witness.
C12_StaleIndexDelete ==
    [][ \A t \in Threads : Deletes(t) =>
          LET rows_to_delete == threads[t].rows_to_delete
              k == rows_to_delete[Len(rows_to_delete)] - 1
          IN  /\ scans' = RowsAt(scans, (1..Len(scans)) \ {k})
              /\ ~threads[t].raced =>
                    /\ k \in 1..Len(scans)
                    /\ threads[t].op = "delete_scan" =>
                           ScanMatches(scans[k], threads[t].data)
                    /\ threads[t].op = "cleanup" => k \in OldScans(scans)
                    /\ removed'.row = scans[k]
                    /\ ~removed'.survives
      ]_vars

\* C12 witness: a delete_scan has just taken a row that does not match its
\* request off the sheet, and the row it had found is still there
C12_Witness ==
    /\ removed.op = "delete_scan"
    /\ req.op = "delete_scan"
    /\ resp.status = "success"
    /\ removed.row # None
    /\ ~ScanMatches(removed.row, removed.data)
    /\ removed.survives
    /\ \E k \in 1..Len(scans) : ScanMatches(scans[k], removed.data)

\* C13: a login that is refused (rate limit, unknown username, wrong
\* password, not approved) leaves the users sheet as it was; a login that
\* succeeds writes the Last Login cell of the row with the credentials'
\* username and no other cell of any row, and answers with a token and the
\* user's username, name, branch, mobile and email, nothing else.
C13_LoginFrame ==
    [][ (req'.op = "login" /\ store_up) =>
          IF resp'.status # "success" THEN users' = users
          ELSE \E k \in 1..Len(users) :
                   /\ users[k].Username = req'.input.username
                   /\ Len(users') = Len(users)
                   /\ \A j \in (1..Len(users)) \ {k} : users'[j] = users[j]
                   /\ users'[k] = [users[k] EXCEPT !.LastLogin = strftime(now)]
                   /\ DOMAIN resp'.body = {"token", "user"}
                   /\ resp'.body.user =
                          [username |-> users[k].Username, name |-> users[k].Name,
                           branch |-> users[k].Branch, mobile |-> users[k].Mobile,
                           email |-> users[k].Email]
                   /\ DOMAIN resp'.body.token.payload =
                          {"username", "name", "branch", "exp"}
      ]_vars

\* C13 witness: the user of the second row has just logged in: that row
\* carries the current time as Last Login, and the first row, of a user who
\* never logged in, still has none
C13_Witness ==
    /\ req.op = "login"
    /\ resp.status = "success"
    /\ Len(users) = 2
    /\ users[2].Username = req.input.username
    /\ users[2].LastLogin = strftime(now)
    /\ users[1].LastLogin = <<>>
    /\ now > 0

====
